---- MODULE Spec2Model ----
(***************************************************************************)
(* Authentication core of the blog API: the User and Admin tables, the     *)
(* token codec, the two route guards and the routes of app/routers/auth.py *)
(* and app/routers/admin.py.  In Spec every route is one action that runs   *)
(* the whole handler (dependencies included) against the store and records *)
(* the request it served and the response it gave.  ConcSpec and GuardSpec *)
(* run the requests of several workers in flight together, one guard check *)
(* or store access at a time.                                              *)
(***************************************************************************)
EXTENDS Integers, FiniteSets, Sequences, TLC

\* ---------------------------------------------------------------- bounds
\* The clock runs over 0..MaxTime.
MaxTime == 2
\* Row ids stay within 1..MaxId (a registration that would need a larger id
\* is not taken).
MaxId == 2

\* ---------------------------------------------------------------- inputs
Usernames == {"alice", "bob"}
Emails == {"a@x.com", "b@x.com"}
\* Passwords tried at login, and those chosen at registration.
Passwords == {"pw1", "pw2"}
NewPasswords == {"pw1"}
MasterKeys == {"master_key", "guess"}
Salts == {"s1"}

\* ------------------------------------------------------- configuration
MASTER_KEY == "master_key"
JWT_SECRET_KEY == "myjwtsecretkey"
AttackerKey == "notthesecret"

\* Token lifetimes in clock ticks (REFRESH_TTL > ACCESS_TTL).
ACCESS_TTL == 1
REFRESH_TTL == 2

\* ------------------------------------------------------ credential hasher
\* hash(plaintext): the salt is embedded in the digest.
hash_password(plaintext, salt) ==
    [salt |-> salt, digest |-> <<salt, plaintext>>]

\* verify(plaintext, digest): recompute with the embedded salt and compare.
verify_password(plaintext, hashed) ==
    hashed.digest = <<hashed.salt, plaintext>>

\* ------------------------------------------------------------ token codec
\* The absent "sub" claim (payload.get("sub") is None).
NoSub == "<no sub>"

\* HMAC of the claims under a key: equal iff key and claims are equal.
Sign(key, sub, kind, exp) == <<key, sub, kind, exp>>

\* A well-formed token string: claims plus signature.
Token(sub, kind, exp, key) ==
    [wf |-> TRUE, sub |-> sub, kind |-> kind, exp |-> exp,
     sig |-> Sign(key, sub, kind, exp)]

\* A string that does not parse as a token.
Garbage ==
    [wf |-> FALSE, sub |-> NoSub, kind |-> "garbage", exp |-> 0,
     sig |-> Sign("", NoSub, "garbage", 0)]

\* No token (a response field that is not there).
NoToken ==
    [wf |-> FALSE, sub |-> NoSub, kind |-> "none", exp |-> 0,
     sig |-> Sign("", NoSub, "none", 0)]

\* issue_access(subject, now)
create_access_token(data, t) ==
    Token(data.sub, "access", t + ACCESS_TTL, JWT_SECRET_KEY)

\* issue_refresh(subject, now)
create_refresh_token(data, t) ==
    Token(data.sub, "refresh", t + REFRESH_TTL, JWT_SECRET_KEY)

\* decode(token, expected_kind, now): the error, or "ok".
decode(token, expected_kind, t) ==
    IF ~token.wf THEN "TokenMalformed"
    ELSE IF token.sig # Sign(JWT_SECRET_KEY, token.sub, token.kind, token.exp)
         THEN "TokenInvalid"
    ELSE IF ~(t < token.exp) THEN "TokenExpired"
    ELSE IF token.kind # expected_kind THEN "TokenInvalid"
    ELSE "ok"

\* verify_access_token(token): the payload, or None (ok = FALSE).
verify_access_token(token, t) ==
    IF decode(token, "access", t) = "ok"
    THEN [ok |-> TRUE, sub |-> token.sub]
    ELSE [ok |-> FALSE, sub |-> NoSub]

\* verify_refresh_token(token): the payload, or raises (ok = FALSE).
verify_refresh_token(token, t) ==
    IF decode(token, "refresh", t) = "ok"
    THEN [ok |-> TRUE, sub |-> token.sub]
    ELSE [ok |-> FALSE, sub |-> NoSub]

\* ------------------------------------------------------------------ store
VARIABLES
    users,      \* the users table: rows [id, username, email, hashed_password]
    admins,     \* the admins table: rows of the same shape
    now,        \* the wall clock
    held,       \* the server-minted token a client holds, and where it came from
    req,        \* the request being answered (NoReq between requests)
    resp,       \* the response to req
    tasks       \* the requests in flight, each at its own place in its code

vars == <<users, admins, now, held, req, resp, tasks>>

NoRow ==
    [id |-> 0, username |-> "", email |-> "",
     hashed_password |-> hash_password("", "")]

Row(id, username, email, hashed) ==
    [id |-> id, username |-> username, email |-> email,
     hashed_password |-> hashed]

\* Query.first(): the matching row of lowest id, or None (NoRow).
First(rows) ==
    IF rows = {} THEN NoRow
    ELSE CHOOSE r \in rows : \A q \in rows : r.id <= q.id

\* The id a new row gets: INTEGER PRIMARY KEY on SQLite is one more than the
\* largest id in the table, so the id of a deleted last row is given again.
NextId(table) ==
    IF table = {} THEN 1
    ELSE (CHOOSE i \in {r.id : r \in table} : \A r \in table : r.id <= i) + 1

\* -------------------------------------------------------------- responses
Response(status, detail, www, handler) ==
    [status |-> status, detail |-> detail, www |-> www, handler |-> handler,
     access_token |-> NoToken, refresh_token |-> NoToken,
     username |-> "", user_id |-> 0, rows |-> {}]

\* raise HTTPException(...): the handler body named in `handler` did not run
\* (or did not finish) and the response is the error.
HTTPException(status, detail, www) == Response(status, detail, www, "none")

NoResp == Response(0, "", "", "none")

\* ----------------------------------------------------------------- guards
NoHeader == [scheme |-> "", token |-> NoToken]
Basic == [scheme |-> "Basic", token |-> Garbage]
Bearer(token) == [scheme |-> "Bearer", token |-> token]

\* OAuth2PasswordBearer: the token of an "Authorization: Bearer <token>"
\* header, or 401 "Not authenticated" when the header is absent or of another
\* scheme.
oauth2_scheme(hdr) ==
    IF hdr.scheme # "Bearer"
    THEN [ok |-> FALSE, token |-> NoToken,
          exc |-> HTTPException(401, "Not authenticated", "Bearer")]
    ELSE [ok |-> TRUE, token |-> hdr.token, exc |-> NoResp]

credentials_exception ==
    HTTPException(401, "Could not validate credentials", "Bearer")

Rejected(exc) == [ok |-> FALSE, principal |-> NoRow, exc |-> exc]
Authorized(row) == [ok |-> TRUE, principal |-> row, exc |-> NoResp]

\* get_current_user with the unknown user reported as such (404).
get_current_user_404(hdr, U, t) ==
    LET s == oauth2_scheme(hdr)
        payload == verify_access_token(s.token, t)
        db_user == First({u \in U : u.username = payload.sub})
    IN  IF ~s.ok THEN Rejected(s.exc)
        ELSE IF ~payload.ok THEN Rejected(credentials_exception)
        ELSE IF payload.sub = NoSub THEN Rejected(credentials_exception)
        ELSE IF db_user = NoRow
             THEN Rejected(HTTPException(404, "User not found", ""))
        ELSE Authorized(db_user)

\* get_current_user verifying the bearer token as a refresh token.
get_current_user_refresh(hdr, U, t) ==
    LET s == oauth2_scheme(hdr)
        payload == verify_refresh_token(s.token, t)
        db_user == First({u \in U : u.username = payload.sub})
    IN  IF ~s.ok THEN Rejected(s.exc)
        ELSE IF ~payload.ok THEN Rejected(credentials_exception)
        ELSE IF payload.sub = NoSub THEN Rejected(credentials_exception)
        ELSE IF db_user = NoRow THEN Rejected(credentials_exception)
        ELSE Authorized(db_user)

\* get_current_user reading the claims of any well-formed token without
\* verifying it.
get_current_user_unverified(hdr, U, t) ==
    LET s == oauth2_scheme(hdr)
        payload == [ok |-> s.token.wf, sub |-> s.token.sub]
        db_user == First({u \in U : u.username = payload.sub})
    IN  IF ~s.ok THEN Rejected(s.exc)
        ELSE IF ~payload.ok THEN Rejected(credentials_exception)
        ELSE IF payload.sub = NoSub THEN Rejected(credentials_exception)
        ELSE IF db_user = NoRow THEN Rejected(credentials_exception)
        ELSE Authorized(db_user)

\* get_current_user: the User row of the bearer token's subject.
get_current_user(hdr, U, t) ==
    LET s == oauth2_scheme(hdr)
        payload == verify_access_token(s.token, t)
        db_user == First({u \in U : u.username = payload.sub})
    IN  IF ~s.ok THEN Rejected(s.exc)
        ELSE IF ~payload.ok THEN Rejected(credentials_exception)
        ELSE IF payload.sub = NoSub THEN Rejected(credentials_exception)
        ELSE IF db_user = NoRow THEN Rejected(credentials_exception)
        ELSE Authorized(db_user)

\* get_admin_user with the unknown admin answered like a bad token.
get_admin_user_401(hdr, A, t) ==
    LET s == oauth2_scheme(hdr)
        payload == verify_access_token(s.token, t)
        db_admin == First({a \in A : a.username = payload.sub})
    IN  IF ~s.ok THEN Rejected(s.exc)
        ELSE IF ~payload.ok
             THEN Rejected(HTTPException(401, "Could not validate credentials",
                                         "Bearer"))
        ELSE IF payload.sub = NoSub
             THEN Rejected(HTTPException(401, "Invalid token payload", "Bearer"))
        ELSE IF db_admin = NoRow
             THEN Rejected(HTTPException(401, "Could not validate credentials",
                                         "Bearer"))
        ELSE Authorized(db_admin)

\* get_admin_user: the Admin row of the bearer token's subject.
get_admin_user(hdr, A, t) ==
    LET s == oauth2_scheme(hdr)
        payload == verify_access_token(s.token, t)
        db_admin == First({a \in A : a.username = payload.sub})
    IN  IF ~s.ok THEN Rejected(s.exc)
        ELSE IF ~payload.ok
             THEN Rejected(HTTPException(401, "Could not validate credentials",
                                         "Bearer"))
        ELSE IF payload.sub = NoSub
             THEN Rejected(HTTPException(401, "Invalid token payload", "Bearer"))
        ELSE IF db_admin = NoRow
             THEN Rejected(HTTPException(403,
                               "Not authorized to access this resource", ""))
        ELSE Authorized(db_admin)

\* --------------------------------------------------------------- handlers
\* Each handler gives the response and the table it leaves behind.
Result(r, table) == [resp |-> r, table |-> table]

\* register with the email check before the username check.
register_email_first(user, U, salt) ==
    LET db_user == First({u \in U : u.username = user.username})
        db_email == First({u \in U : u.email = user.email})
        new_user == Row(NextId(U), user.username, user.email,
                        hash_password(user.password, salt))
    IN  IF db_email # NoRow
        THEN Result(HTTPException(400, "Email already registered", ""), U)
        ELSE IF db_user # NoRow
        THEN Result(HTTPException(400, "Username already registered", ""), U)
        ELSE Result([Response(200, "Registered successfully", "", "register")
                        EXCEPT !.username = new_user.username],
                    U \cup {new_user})

\* POST /auth/register
register(user, U, salt) ==
    LET db_user == First({u \in U : u.username = user.username})
        db_email == First({u \in U : u.email = user.email})
        new_user == Row(NextId(U), user.username, user.email,
                        hash_password(user.password, salt))
    IN  IF db_user # NoRow
        THEN Result(HTTPException(400, "Username already registered", ""), U)
        ELSE IF db_email # NoRow
        THEN Result(HTTPException(400, "Email already registered", ""), U)
        ELSE Result([Response(200, "Registered successfully", "", "register")
                        EXCEPT !.username = new_user.username],
                    U \cup {new_user})

\* user_login minting the tokens for the email instead of the username.
user_login_email(user, U, t) ==
    LET db_user == First({u \in U : u.email = user.email})
    IN  IF db_user = NoRow
           \/ ~verify_password(user.password, db_user.hashed_password)
        THEN HTTPException(400, "Invalid credentials", "")
        ELSE [Response(200, "", "", "user_login") EXCEPT
                !.access_token = create_access_token([sub |-> db_user.email], t),
                !.refresh_token = create_refresh_token([sub |-> db_user.email], t),
                !.username = db_user.username,
                !.user_id = db_user.id]

\* POST /auth/user/login
user_login(user, U, t) ==
    LET db_user == First({u \in U : u.email = user.email})
    IN  IF db_user = NoRow
           \/ ~verify_password(user.password, db_user.hashed_password)
        THEN HTTPException(400, "Invalid credentials", "")
        ELSE [Response(200, "", "", "user_login") EXCEPT
                !.access_token = create_access_token([sub |-> db_user.username], t),
                !.refresh_token = create_refresh_token([sub |-> db_user.username], t),
                !.username = db_user.username,
                !.user_id = db_user.id]

\* POST /auth/login (the OAuth2 form: its username field carries the email)
login_for_oauth_form(form_data, U, t) ==
    LET db_user == First({u \in U : u.email = form_data.email})
    IN  IF db_user = NoRow
           \/ ~verify_password(form_data.password, db_user.hashed_password)
        THEN HTTPException(400, "Invalid credentials", "")
        ELSE [Response(200, "", "", "login_for_oauth_form") EXCEPT
                !.access_token = create_access_token([sub |-> db_user.username], t),
                !.username = db_user.username]

\* GET /auth/protected-route (body; the guard has passed)
protected_route(current_user) ==
    [Response(200, "Hello", "", "protected_route") EXCEPT
        !.username = current_user.username]

\* get_refresh_token without the check that the user still exists.
get_refresh_token_no_lookup(token, U, t) ==
    LET payload == verify_refresh_token(token, t)
    IN  IF ~payload.ok THEN credentials_exception
        ELSE IF payload.sub = NoSub
        THEN HTTPException(401, "Invalid refresh token payload", "")
        ELSE [Response(200, "", "", "get_refresh_token") EXCEPT
                !.access_token = create_access_token([sub |-> payload.sub], t)]

\* POST /auth/user/refresh-token
get_refresh_token(token, U, t) ==
    LET payload == verify_refresh_token(token, t)
        db_user == First({u \in U : u.username = payload.sub})
    IN  IF ~payload.ok THEN credentials_exception
        ELSE IF payload.sub = NoSub
        THEN HTTPException(401, "Invalid refresh token payload", "")
        ELSE IF db_user = NoRow
        THEN HTTPException(401, "User not found", "")
        ELSE [Response(200, "", "", "get_refresh_token") EXCEPT
                !.access_token = create_access_token([sub |-> payload.sub], t)]

\* DELETE /auth/account (body; `user` is the row the guard returned)
delete_account(user, U) ==
    LET found == First({u \in U : u.username = user.username
                                  /\ u.email = user.email})
        target_user == First({u \in U : u.id = found.id})
    IN  IF found = NoRow
        THEN Result(HTTPException(500, "Internal Server Error", ""), U)
        ELSE IF target_user = NoRow
        THEN Result(HTTPException(404, "User not found", ""), U)
        ELSE Result([Response(200, "Deleted account", "", "delete_account")
                        EXCEPT !.username = target_user.username,
                               !.user_id = target_user.id],
                    U \ {target_user})

\* login telling an unknown email from a wrong password.
login_unknown_email(user, A, t) ==
    LET db_admin == First({a \in A : a.email = user.email})
    IN  IF db_admin = NoRow
        THEN HTTPException(404, "Admin not found", "")
        ELSE IF ~verify_password(user.password, db_admin.hashed_password)
        THEN HTTPException(400, "Invalid credentials", "")
        ELSE [Response(200, "", "", "login") EXCEPT
                !.access_token = create_access_token([sub |-> db_admin.username], t),
                !.username = db_admin.username,
                !.user_id = db_admin.id]

\* POST /admin/login
login(user, A, t) ==
    LET db_admin == First({a \in A : a.email = user.email})
    IN  IF db_admin = NoRow
           \/ ~verify_password(user.password, db_admin.hashed_password)
        THEN HTTPException(400, "Invalid credentials", "")
        ELSE [Response(200, "", "", "login") EXCEPT
                !.access_token = create_access_token([sub |-> db_admin.username], t),
                !.username = db_admin.username,
                !.user_id = db_admin.id]

\* register (admin) looking at the master key only after the username and
\* the email have been found free.
admin_register_key_last(user, A, salt) ==
    LET new_admin == Row(NextId(A), user.username, user.email,
                         hash_password(user.password, salt))
    IN  IF First({a \in A : a.username = user.username}) # NoRow
        THEN Result(HTTPException(400, "Username already registered", ""), A)
        ELSE IF First({a \in A : a.email = user.email}) # NoRow
        THEN Result(HTTPException(400, "Email already registered", ""), A)
        ELSE IF user.master_key # MASTER_KEY
        THEN Result(HTTPException(400, "Incorrect master key", ""), A)
        ELSE Result([Response(200, "Admin registered successfully!", "",
                              "admin_register")
                        EXCEPT !.username = new_admin.username],
                    A \cup {new_admin})

\* POST /admin/register
admin_register(user, A, salt) ==
    LET new_admin == Row(NextId(A), user.username, user.email,
                         hash_password(user.password, salt))
    IN  IF user.master_key # MASTER_KEY
        THEN Result(HTTPException(400, "Incorrect master key", ""), A)
        ELSE IF First({a \in A : a.username = user.username}) # NoRow
        THEN Result(HTTPException(400, "Username already registered", ""), A)
        ELSE IF First({a \in A : a.email = user.email}) # NoRow
        THEN Result(HTTPException(400, "Email already registered", ""), A)
        ELSE Result([Response(200, "Admin registered successfully!", "",
                              "admin_register")
                        EXCEPT !.username = new_admin.username],
                    A \cup {new_admin})

\* GET /admin/users (body)
get_all_users(U, limit, offset) ==
    LET rank(u) == Cardinality({v \in U : v.id < u.id})
    IN  [Response(200, "", "", "get_all_users") EXCEPT
            !.rows = {u.id : u \in {v \in U : /\ offset <= rank(v)
                                                /\ rank(v) < offset + limit}}]

\* delete_user emptying the table once the row of that id is found.
delete_user_all(user_id, U) ==
    LET target_user == First({u \in U : u.id = user_id})
    IN  IF target_user = NoRow
        THEN Result(HTTPException(404, "User not found", ""), U)
        ELSE Result([Response(200, "Deleted user", "", "delete_user")
                        EXCEPT !.username = target_user.username,
                               !.user_id = target_user.id],
                    {})

\* DELETE /admin/users/{user_id} (body)
delete_user(user_id, U) ==
    LET target_user == First({u \in U : u.id = user_id})
    IN  IF target_user = NoRow
        THEN Result(HTTPException(404, "User not found", ""), U)
        ELSE Result([Response(200, "Deleted user", "", "delete_user")
                        EXCEPT !.username = target_user.username,
                               !.user_id = target_user.id],
                    U \ {target_user})

\* GET /admin/logs (body; the logger has created audit_logs.log)
get_logs == Response(200, "", "", "get_logs")

\* --------------------------------------------------------------- requests
Request(op, hdr, body_token, username, email, password, master_key, user_id) ==
    [op |-> op, hdr |-> hdr, body_token |-> body_token, username |-> username,
     email |-> email, password |-> password, master_key |-> master_key,
     user_id |-> user_id]

NoReq == Request("none", NoHeader, NoToken, "", "", "", "", 0)

\* A guarded request carries only its header (and, for one route, an id).
Guarded(op, hdr, user_id) == Request(op, hdr, NoToken, "", "", "", "", user_id)

\* The held token and its provenance: the table whose row it was minted for,
\* when it was minted, and whether that row has been deleted since.
Held(tok, origin, iat) ==
    [tok |-> tok, origin |-> origin, iat |-> iat, orphan |-> FALSE]
NoHeld == Held(NoToken, "none", 0)

\* What a client can put where a token of kind `kind` is expected: the token
\* it holds, that token with its expiry or kind rewritten under the old
\* signature, a token signed with another key, and a string that is no
\* token.  (The server's key signs only what the logins mint.)
Presented(h, kind, t) ==
    {Garbage}
    \cup {Token(n, kind, t + 1, AttackerKey) : n \in Usernames}
    \cup (IF h.tok = NoToken THEN {}
          ELSE {h.tok, [h.tok EXCEPT !.exp = @ + 1], [h.tok EXCEPT !.kind = kind]})

\* A live principal can log in at any moment, and the login changes neither
\* the tables nor the clock: the access token such a login mints now is among
\* what a client can present, beside the token the model keeps track of.
Fresh(table, t) == {create_access_token([sub |-> r.username], t) : r \in table}

\* The Authorization headers of a request to a route guarded for `table`.
Headers(h, table, t) ==
    {NoHeader, Basic}
    \cup {Bearer(k) : k \in Presented(h, "access", t) \cup Fresh(table, t)}

\* The client keeps the token it held or one of those just minted.
Keep(minted, origin) ==
    held' \in {held} \cup {Held(k, origin, now) : k \in minted \ {NoToken}}

\* Deleting the User row `row` orphans a held token minted for it.
Orphan(row) ==
    held' = IF held.origin = "user" /\ held.tok.sub = row.username
            THEN [held EXCEPT !.orphan = TRUE]
            ELSE held

\* ------------------------------------------------------ requests in flight
\* The slots of the requests the workers handle at the same time.
TaskIds == {"t1", "t2"}

\* A request in flight: what it carries, the state of its guard, its place
\* in the handler body, the rows its queries have returned so far, and its
\* response once there is one.
Task(op, hdr, username, email, password, user_id, guard, pc) ==
    [op |-> op, hdr |-> hdr, username |-> username, email |-> email,
     password |-> password, user_id |-> user_id, guard |-> guard, pc |-> pc,
     principal |-> NoRow, found |-> 0, target |-> NoRow, resp |-> NoResp]

\* A slot without request.
Idle == Task("none", NoHeader, "", "", "", 0, "none", "idle")

\* The request has its response: nothing of it runs any more.
Done(task, r) == [task EXCEPT !.pc = "done", !.resp = r]

\* The guard raised: the request is answered with the error.
Reject(task, exc) == [Done(task, exc) EXCEPT !.guard = "Rejected"]

\* ---------------------------------------------------------------- actions
Init ==
    /\ users = {}
    /\ admins = {}
    /\ now = 0
    /\ held = NoHeld
    /\ req = NoReq
    /\ resp = NoResp
    /\ tasks = [i \in TaskIds |-> Idle]

Register ==
    /\ req = NoReq
    /\ \E u \in Usernames, e \in Emails, p \in NewPasswords, salt \in Salts :
         LET r == register([username |-> u, email |-> e, password |-> p],
                           users, salt)
         IN  /\ r.table = users \/ NextId(users) <= MaxId
             /\ users' = r.table
             /\ req' = Request("register", NoHeader, NoToken, u, e, p, "", 0)
             /\ resp' = r.resp
    /\ UNCHANGED <<admins, now, held, tasks>>

UserLogin ==
    /\ req = NoReq
    /\ \E e \in Emails, p \in Passwords :
         LET r == user_login([email |-> e, password |-> p], users, now)
         IN  /\ req' = Request("user_login", NoHeader, NoToken, "", e, p, "", 0)
             /\ resp' = r
             /\ Keep({r.access_token, r.refresh_token}, "user")
    /\ UNCHANGED <<users, admins, now, tasks>>

LoginForOauthForm ==
    /\ req = NoReq
    /\ \E e \in Emails, p \in Passwords :
         LET r == login_for_oauth_form([email |-> e, password |-> p], users, now)
         IN  /\ req' = Request("login_for_oauth_form", NoHeader, NoToken, "",
                               e, p, "", 0)
             /\ resp' = r
             /\ Keep({r.access_token}, "user")
    /\ UNCHANGED <<users, admins, now, tasks>>

ProtectedRoute ==
    /\ req = NoReq
    /\ \E hdr \in Headers(held, users, now) :
         LET g == get_current_user(hdr, users, now)
         IN  /\ req' = Guarded("protected_route", hdr, 0)
             /\ resp' = IF g.ok THEN protected_route(g.principal) ELSE g.exc
    /\ UNCHANGED <<users, admins, now, held, tasks>>

GetRefreshToken ==
    /\ req = NoReq
    /\ \E k \in Presented(held, "refresh", now) :
         LET r == get_refresh_token(k, users, now)
         IN  /\ req' = Request("get_refresh_token", NoHeader, k, "", "", "", "", 0)
             /\ resp' = r
             /\ Keep({r.access_token}, "user")
    /\ UNCHANGED <<users, admins, now, tasks>>

DeleteAccount ==
    /\ req = NoReq
    /\ \E hdr \in Headers(held, users, now) :
         LET g == get_current_user(hdr, users, now)
             r == delete_account(g.principal, users)
         IN  /\ req' = Guarded("delete_account", hdr, 0)
             /\ IF g.ok
                THEN /\ resp' = r.resp
                     /\ users' = r.table
                     /\ IF r.table # users THEN Orphan(g.principal)
                        ELSE held' = held
                ELSE /\ resp' = g.exc
                     /\ UNCHANGED <<users, held>>
    /\ UNCHANGED <<admins, now, tasks>>

AdminLogin ==
    /\ req = NoReq
    /\ \E e \in Emails, p \in Passwords :
         LET r == login([email |-> e, password |-> p], admins, now)
         IN  /\ req' = Request("login", NoHeader, NoToken, "", e, p, "", 0)
             /\ resp' = r
             /\ Keep({r.access_token}, "admin")
    /\ UNCHANGED <<users, admins, now, tasks>>

AdminRegister ==
    /\ req = NoReq
    /\ \E u \in Usernames, e \in Emails, p \in NewPasswords, mk \in MasterKeys,
          salt \in Salts :
         LET r == admin_register([username |-> u, email |-> e, password |-> p,
                                  master_key |-> mk], admins, salt)
         IN  /\ r.table = admins \/ NextId(admins) <= MaxId
             /\ admins' = r.table
             /\ req' = Request("admin_register", NoHeader, NoToken, u, e, p, mk, 0)
             /\ resp' = r.resp
    /\ UNCHANGED <<users, now, held, tasks>>

GetAllUsers ==
    /\ req = NoReq
    /\ \E hdr \in Headers(held, admins, now) :
         LET g == get_admin_user(hdr, admins, now)
         IN  /\ req' = Guarded("get_all_users", hdr, 0)
             /\ resp' = IF g.ok THEN get_all_users(users, 10, 0) ELSE g.exc
    /\ UNCHANGED <<users, admins, now, held, tasks>>

DeleteUser ==
    /\ req = NoReq
    /\ \E hdr \in Headers(held, admins, now), user_id \in 1..MaxId :
         LET g == get_admin_user(hdr, admins, now)
             r == delete_user(user_id, users)
         IN  /\ req' = Guarded("delete_user", hdr, user_id)
             /\ IF g.ok
                THEN /\ resp' = r.resp
                     /\ users' = r.table
                     /\ IF r.table # users
                        THEN Orphan(First({u \in users : u.id = user_id}))
                        ELSE held' = held
                ELSE /\ resp' = g.exc
                     /\ UNCHANGED <<users, held>>
    /\ UNCHANGED <<admins, now, tasks>>

GetLogs ==
    /\ req = NoReq
    /\ \E hdr \in Headers(held, admins, now) :
         LET g == get_admin_user(hdr, admins, now)
         IN  /\ req' = Guarded("get_logs", hdr, 0)
             /\ resp' = IF g.ok THEN get_logs ELSE g.exc
    /\ UNCHANGED <<users, admins, now, held, tasks>>

\* The response goes out; the next request can be taken.
Respond ==
    /\ req # NoReq
    /\ req' = NoReq
    /\ resp' = NoResp
    /\ UNCHANGED <<users, admins, now, held, tasks>>

\* Time passes between requests.
Tick ==
    /\ req = NoReq
    /\ now < MaxTime
    /\ now' = now + 1
    /\ UNCHANGED <<users, admins, held, req, resp, tasks>>

Next ==
    \/ Register
    \/ UserLogin
    \/ LoginForOauthForm
    \/ ProtectedRoute
    \/ GetRefreshToken
    \/ DeleteAccount
    \/ AdminLogin
    \/ AdminRegister
    \/ GetAllUsers
    \/ DeleteUser
    \/ GetLogs
    \/ Respond
    \/ Tick

Spec == Init /\ [][Next]_vars

\* ========================================================= requests in flight
\* The same routes with the workers interleaved: a request in flight takes
\* one step per check of its guard and per statement of its handler that
\* reads or writes the store, and the steps of the requests in flight
\* interleave in any order.  Every query sees what has been committed.

\* get_current_user_step authorizing whatever row comes first when the
\* subject has none.
get_current_user_step_any_row(task, U, t) ==
    LET s == oauth2_scheme(task.hdr)
        payload == verify_access_token(s.token, t)
        db_user == First({u \in U : u.username = payload.sub})
    IN  CASE task.guard = "Unauthenticated" ->
               IF ~s.ok THEN Reject(task, s.exc)
               ELSE [task EXCEPT !.guard = "TokenChecked"]
          [] task.guard = "TokenChecked" ->
               IF ~payload.ok \/ payload.sub = NoSub
               THEN Reject(task, credentials_exception)
               ELSE [task EXCEPT !.guard = "PrincipalChecked"]
          [] task.guard = "PrincipalChecked" ->
               [task EXCEPT !.guard = "Authorized", !.pc = "body",
                            !.principal = IF db_user = NoRow THEN First(U)
                                          ELSE db_user]
          [] OTHER -> task

\* get_current_user, one check at a time: the token of the header, its
\* verification and subject, the lookup of the subject's row.
get_current_user_step(task, U, t) ==
    LET s == oauth2_scheme(task.hdr)
        payload == verify_access_token(s.token, t)
        db_user == First({u \in U : u.username = payload.sub})
    IN  CASE task.guard = "Unauthenticated" ->
               IF ~s.ok THEN Reject(task, s.exc)
               ELSE [task EXCEPT !.guard = "TokenChecked"]
          [] task.guard = "TokenChecked" ->
               IF ~payload.ok \/ payload.sub = NoSub
               THEN Reject(task, credentials_exception)
               ELSE [task EXCEPT !.guard = "PrincipalChecked"]
          [] task.guard = "PrincipalChecked" ->
               IF db_user = NoRow THEN Reject(task, credentials_exception)
               ELSE [task EXCEPT !.guard = "Authorized", !.pc = "body",
                                 !.principal = db_user]
          [] OTHER -> task

\* get_admin_user, one check at a time.
get_admin_user_step(task, A, t) ==
    LET s == oauth2_scheme(task.hdr)
        payload == verify_access_token(s.token, t)
        db_admin == First({a \in A : a.username = payload.sub})
    IN  CASE task.guard = "Unauthenticated" ->
               IF ~s.ok THEN Reject(task, s.exc)
               ELSE [task EXCEPT !.guard = "TokenChecked"]
          [] task.guard = "TokenChecked" ->
               IF ~payload.ok
               THEN Reject(task, HTTPException(401,
                               "Could not validate credentials", "Bearer"))
               ELSE IF payload.sub = NoSub
               THEN Reject(task, HTTPException(401, "Invalid token payload",
                                               "Bearer"))
               ELSE [task EXCEPT !.guard = "PrincipalChecked"]
          [] task.guard = "PrincipalChecked" ->
               IF db_admin = NoRow
               THEN Reject(task, HTTPException(403,
                               "Not authorized to access this resource", ""))
               ELSE [task EXCEPT !.guard = "Authorized", !.pc = "body",
                                 !.principal = db_admin]
          [] OTHER -> task

\* A step of a handler gives the task after it and the table it leaves.
Moved(task, table) == [task |-> task, table |-> table]

\* An exception no handler catches: the framework answers 500.
InternalServerError == HTTPException(500, "Internal Server Error", "")

\* How a DELETE that matches no row ends at the commit: the ORM warns and
\* the commit goes through, or it raises StaleDataError.
StaleOutcomes == {"warn", "raise"}

\* POST /auth/register, one store access at a time: the username query, the
\* email query, the INSERT and commit (the UNIQUE columns of the users table
\* refuse a second row of the same username or email with IntegrityError).
register_step(task, U, salt) ==
    LET db_user == First({u \in U : u.username = task.username})
        db_email == First({u \in U : u.email = task.email})
        new_user == Row(NextId(U), task.username, task.email,
                        hash_password(task.password, salt))
    IN  CASE task.pc = "body" ->
               IF db_user # NoRow
               THEN Moved(Done(task, HTTPException(400,
                                   "Username already registered", "")), U)
               ELSE Moved([task EXCEPT !.pc = "check_email"], U)
          [] task.pc = "check_email" ->
               IF db_email # NoRow
               THEN Moved(Done(task, HTTPException(400,
                                   "Email already registered", "")), U)
               ELSE Moved([task EXCEPT !.pc = "commit"], U)
          [] task.pc = "commit" ->
               IF db_user # NoRow \/ db_email # NoRow
               THEN Moved(Done(task, InternalServerError), U)
               ELSE Moved(Done(task,
                               [Response(200, "Registered successfully", "",
                                         "register")
                                   EXCEPT !.username = new_user.username]),
                          U \cup {new_user})
          [] OTHER -> Moved(task, U)

\* DELETE /auth/account, one store access at a time: the id of the row with
\* the principal's username and email (`.first()[0]` raises TypeError when
\* there is none), the row of that id, the DELETE by primary key and commit.
delete_account_step(task, U, stale) ==
    LET user == task.principal
        found == First({u \in U : u.username = user.username
                                  /\ u.email = user.email})
        target_user == First({u \in U : u.id = task.found})
        matched == {u \in U : u.id = task.target.id}
    IN  CASE task.pc = "body" ->
               IF found = NoRow THEN Moved(Done(task, InternalServerError), U)
               ELSE Moved([task EXCEPT !.pc = "lookup", !.found = found.id], U)
          [] task.pc = "lookup" ->
               IF target_user = NoRow
               THEN Moved(Done(task, HTTPException(404, "User not found", "")),
                          U)
               ELSE Moved([task EXCEPT !.pc = "commit",
                                       !.target = target_user], U)
          [] task.pc = "commit" ->
               IF matched = {} /\ stale = "raise"
               THEN Moved(Done(task, InternalServerError), U)
               ELSE Moved(Done(task,
                               [Response(200, "Deleted account", "",
                                         "delete_account")
                                   EXCEPT !.username = task.target.username,
                                          !.user_id = task.target.id]),
                          U \ matched)
          [] OTHER -> Moved(task, U)

\* DELETE /admin/users/{user_id}, one store access at a time: the row of
\* that id, the DELETE by primary key and commit.
delete_user_step(task, U, stale) ==
    LET target_user == First({u \in U : u.id = task.user_id})
        matched == {u \in U : u.id = task.target.id}
    IN  CASE task.pc = "body" ->
               IF target_user = NoRow
               THEN Moved(Done(task, HTTPException(404, "User not found", "")),
                          U)
               ELSE Moved([task EXCEPT !.pc = "commit",
                                       !.target = target_user], U)
          [] task.pc = "commit" ->
               IF matched = {} /\ stale = "raise"
               THEN Moved(Done(task, InternalServerError), U)
               ELSE Moved(Done(task,
                               [Response(200, "Deleted user", "", "delete_user")
                                   EXCEPT !.username = task.target.username,
                                          !.user_id = task.target.id]),
                          U \ matched)
          [] OTHER -> Moved(task, U)

\* What the header of a request in flight can carry: no header, a string
\* that is no token, or the access token a login of a live row mints now.
TaskHeaders(U, A, t) ==
    {NoHeader, Bearer(Garbage)} \cup {Bearer(k) : k \in Fresh(U \cup A, t)}

\* The Admin table after one POST /admin/register with the master key.
Seeded ==
    admin_register([username |-> "alice", email |-> "a@x.com",
                    password |-> "pw1", master_key |-> MASTER_KEY],
                   {}, "s1").table

\* The service with one admin registered and no request in flight.
ConcInit ==
    /\ users = {}
    /\ admins = Seeded
    /\ now = 0
    /\ held = NoHeld
    /\ req = NoReq
    /\ resp = NoResp
    /\ tasks = [i \in TaskIds |-> Idle]

\* A registration arrives and is given to a free worker.
ArriveRegister(i) ==
    /\ tasks[i] = Idle
    /\ \E u \in Usernames, e \in Emails, p \in NewPasswords :
         tasks' = [tasks EXCEPT ![i] =
                     Task("register", NoHeader, u, e, p, 0, "none", "body")]
    /\ UNCHANGED <<users, admins, now, held, req, resp>>

\* A request to a guarded route arrives and is given to a free worker.
ArriveGuarded(i) ==
    /\ tasks[i] = Idle
    /\ \/ \E op \in {"protected_route", "delete_account", "get_all_users",
                     "get_logs"},
             hdr \in TaskHeaders(users, admins, now) :
            tasks' = [tasks EXCEPT ![i] =
                        Task(op, hdr, "", "", "", 0, "Unauthenticated", "guard")]
       \/ \E hdr \in TaskHeaders(users, admins, now), user_id \in 1..MaxId :
            tasks' = [tasks EXCEPT ![i] =
                        Task("delete_user", hdr, "", "", "", user_id,
                             "Unauthenticated", "guard")]
    /\ UNCHANGED <<users, admins, now, held, req, resp>>

\* The guard of a request makes its next check.
GuardStep(i) ==
    /\ tasks[i].pc = "guard"
    /\ tasks' = [tasks EXCEPT ![i] =
                   IF tasks[i].op \in {"protected_route", "delete_account"}
                   THEN get_current_user_step(tasks[i], users, now)
                   ELSE get_admin_user_step(tasks[i], admins, now)]
    /\ UNCHANGED <<users, admins, now, held, req, resp>>

\* The body of a handler whose dependencies have all returned.
Running(task, op) ==
    /\ task.op = op
    /\ task.pc \notin {"idle", "guard", "done"}

RegisterStep(i) ==
    /\ Running(tasks[i], "register")
    /\ \E salt \in Salts :
         LET m == register_step(tasks[i], users, salt)
         IN  /\ m.table = users \/ NextId(users) <= MaxId
             /\ tasks' = [tasks EXCEPT ![i] = m.task]
             /\ users' = m.table
    /\ UNCHANGED <<admins, now, held, req, resp>>

ProtectedRouteBody(i) ==
    /\ Running(tasks[i], "protected_route")
    /\ tasks' = [tasks EXCEPT ![i] =
                   Done(tasks[i], protected_route(tasks[i].principal))]
    /\ UNCHANGED <<users, admins, now, held, req, resp>>

DeleteAccountStep(i) ==
    /\ Running(tasks[i], "delete_account")
    /\ \E stale \in StaleOutcomes :
         LET m == delete_account_step(tasks[i], users, stale)
         IN  /\ tasks' = [tasks EXCEPT ![i] = m.task]
             /\ users' = m.table
    /\ UNCHANGED <<admins, now, held, req, resp>>

GetAllUsersBody(i) ==
    /\ Running(tasks[i], "get_all_users")
    /\ tasks' = [tasks EXCEPT ![i] = Done(tasks[i], get_all_users(users, 10, 0))]
    /\ UNCHANGED <<users, admins, now, held, req, resp>>

DeleteUserStep(i) ==
    /\ Running(tasks[i], "delete_user")
    /\ \E stale \in StaleOutcomes :
         LET m == delete_user_step(tasks[i], users, stale)
         IN  /\ tasks' = [tasks EXCEPT ![i] = m.task]
             /\ users' = m.table
    /\ UNCHANGED <<admins, now, held, req, resp>>

GetLogsBody(i) ==
    /\ Running(tasks[i], "get_logs")
    /\ tasks' = [tasks EXCEPT ![i] = Done(tasks[i], get_logs)]
    /\ UNCHANGED <<users, admins, now, held, req, resp>>

\* The response goes out and the worker is free again.
Finish(i) ==
    /\ tasks[i].pc = "done"
    /\ tasks' = [tasks EXCEPT ![i] = Idle]
    /\ UNCHANGED <<users, admins, now, held, req, resp>>

\* Whatever the guarded request in slot i does next.
Serve(i) ==
    \/ GuardStep(i)
    \/ ProtectedRouteBody(i)
    \/ DeleteAccountStep(i)
    \/ GetAllUsersBody(i)
    \/ DeleteUserStep(i)
    \/ GetLogsBody(i)
    \/ Finish(i)

ConcNext ==
    \E i \in TaskIds :
        ArriveRegister(i) \/ ArriveGuarded(i) \/ RegisterStep(i) \/ Serve(i)

\* Registrations and guarded requests in flight together.
ConcSpec == ConcInit /\ [][ConcNext]_vars

\* The User table after alice and bob have registered.
Populated ==
    register([username |-> "bob", email |-> "b@x.com", password |-> "pw1"],
             register([username |-> "alice", email |-> "a@x.com",
                       password |-> "pw1"], {}, "s1").table,
             "s1").table

\* The service with two users and one admin, and no request in flight.
GuardInit ==
    /\ users = Populated
    /\ admins = Seeded
    /\ now = 0
    /\ held = NoHeld
    /\ req = NoReq
    /\ resp = NoResp
    /\ tasks = [i \in TaskIds |-> Idle]

GuardNext == \E i \in TaskIds : ArriveGuarded(i) \/ Serve(i)

\* The guarded requests in flight together.  Every request in flight is run
\* on: the event loop and the thread pool leave no ready request waiting
\* for ever.
GuardSpec ==
    GuardInit /\ [][GuardNext]_vars /\ \A i \in TaskIds : WF_vars(Serve(i))

\* ============================================================= properties
\* Vocabulary of the claims.
UserGuarded == {"protected_route", "delete_account"}
AdminGuarded == {"get_all_users", "delete_user", "get_logs"}
Logins == {"user_login", "login_for_oauth_form", "login"}

\* The step that takes a request of one of `ops` and answers it.
Serves(ops) == req = NoReq /\ req'.op \in ops

\* The failure kinds of a presented token k at time t.
Malformed(k) == ~k.wf
BadSignature(k) ==
    k.wf /\ k.sig # Sign(JWT_SECRET_KEY, k.sub, k.kind, k.exp)
Expired(k, t) == k.wf /\ t >= k.exp
Unresolved(k, table) == ~\E r \in table : r.username = k.sub

\* The handler body ran to its successful end.
Reached(r) == r.status = 200 /\ r.handler # "none"

\* -------------------------------------------------------------------- C1
\* C1 as stated: every failure of the user guard -- header absent or of
\* another scheme, token malformed, badly signed or expired, subject without
\* a User row -- is answered by the one response 401 "Could not validate
\* credentials" with WWW-Authenticate: Bearer.
C1_AsClaimed ==
    [][Serves(UserGuarded) =>
        LET hdr == req'.hdr
            k == hdr.token
        IN  (\/ hdr.scheme # "Bearer"
             \/ Malformed(k) \/ BadSignature(k) \/ Expired(k, now)
             \/ Unresolved(k, users))
            => resp' = HTTPException(401, "Could not validate credentials",
                                     "Bearer")]_vars

\* C1 amended: every such failure is a 401 with WWW-Authenticate: Bearer and
\* leaves the store alone; the detail is "Could not validate credentials"
\* for every failure of the token or its subject, and "Not authenticated"
\* when the header is absent or not of the Bearer scheme.
C1_UserGuardRejects ==
    [][Serves(UserGuarded) =>
        LET hdr == req'.hdr
            k == hdr.token
        IN  /\ hdr.scheme # "Bearer"
               => /\ resp' = HTTPException(401, "Not authenticated", "Bearer")
                  /\ users' = users
            /\ (/\ hdr.scheme = "Bearer"
                /\ \/ Malformed(k) \/ BadSignature(k) \/ Expired(k, now)
                   \/ Unresolved(k, users))
               => /\ resp' = HTTPException(401,
                                 "Could not validate credentials", "Bearer")
                  /\ users' = users]_vars

\* A verified, unexpired access token whose user has been deleted was
\* presented to a user-guarded route and got the generic 401.
C1_Witness ==
    /\ req.op \in UserGuarded
    /\ req.hdr = Bearer(held.tok)
    /\ held.origin = "user" /\ held.orphan
    /\ held.tok.kind = "access" /\ now < held.tok.exp
    /\ Unresolved(held.tok, users)
    /\ resp = HTTPException(401, "Could not validate credentials", "Bearer")

Accepted(r) == r.status \notin {401, 403}

\* C3 as stated: an access token minted by a user login (or by the refresh
\* route for a user) is never accepted by the admin guard, whatever Admin
\* rows exist.
C3_UserTokenNeverAdmin ==
    (/\ req.op \in AdminGuarded
     /\ req.hdr = Bearer(held.tok)
     /\ held.origin = "user")
    => ~Accepted(resp)

\* -------------------------------------------------------------------- C4
\* C4: a bearer token of kind refresh is answered 401 by every guarded route
\* and runs no handler; a token of kind access in the refresh_token field is
\* answered 401 and yields no access token.
C4_KindsNeverConfused ==
    /\ (/\ req.op \in UserGuarded \cup AdminGuarded
        /\ req.hdr.scheme = "Bearer"
        /\ req.hdr.token.kind = "refresh")
       => resp.status = 401 /\ resp.handler = "none"
    /\ (req.op = "get_refresh_token" /\ req.body_token.kind = "access")
       => resp.status = 401 /\ resp.access_token = NoToken

\* The unexpired refresh token of a live user was presented as bearer token
\* and refused.
C4_Witness ==
    /\ req.op = "protected_route"
    /\ req.hdr = Bearer(held.tok)
    /\ held.origin = "user" /\ ~held.orphan
    /\ held.tok.kind = "refresh" /\ now < held.tok.exp
    /\ resp.status = 401

\* The unexpired access token of a live user was presented in the
\* refresh_token field and refused.
C4_WitnessRefresh ==
    /\ req.op = "get_refresh_token"
    /\ req.body_token = held.tok
    /\ held.origin = "user" /\ ~held.orphan
    /\ held.tok.kind = "access" /\ now < held.tok.exp
    /\ resp.status = 401

\* -------------------------------------------------------------------- C5
\* C5: an access token minted at time t expires at t + ACCESS_TTL: it decodes
\* as an access token before that time and fails with TokenExpired from then
\* on, when both guards answer it with 401 and run no handler, whether or not its
\* subject still has a row, and rewriting the expiry under the old signature
\* does not help; a guard accepts a bearer token only before its expiry.  A
\* refresh token past t + REFRESH_TTL mints nothing.
C5_NoTokenPastExpiry ==
    LET guarded == req.op \in UserGuarded \cup AdminGuarded
        k == held.tok
    IN  /\ k.kind = "access" => k.exp = held.iat + ACCESS_TTL
        /\ k.kind = "refresh" => k.exp = held.iat + REFRESH_TTL
        /\ k.kind = "access"
           => decode(k, "access", now)
                = IF now < held.iat + ACCESS_TTL THEN "ok" ELSE "TokenExpired"
        /\ (/\ guarded
            /\ k.kind = "access"
            /\ req.hdr \in {Bearer(k), Bearer([k EXCEPT !.exp = @ + 1])}
            /\ now >= held.iat + ACCESS_TTL)
           => resp.status = 401 /\ resp.handler = "none"
        /\ (guarded /\ Accepted(resp)) => now < req.hdr.token.exp
        /\ (/\ req.op = "get_refresh_token"
            /\ k.kind = "refresh"
            /\ req.body_token = k
            /\ now >= held.iat + REFRESH_TTL)
           => resp.status = 401 /\ resp.access_token = NoToken

\* The expired access token of a user whose row is still there was refused.
C5_Witness ==
    /\ req.op = "protected_route"
    /\ req.hdr = Bearer(held.tok)
    /\ held.origin = "user" /\ ~held.orphan
    /\ held.tok.kind = "access"
    /\ now >= held.iat + ACCESS_TTL
    /\ \E u \in users : u.username = held.tok.sub
    /\ resp.status = 401

\* -------------------------------------------------------------------- C6
\* C6: a successful user login of the row u found by the email answers with
\* u's username and an access token that decodes, at every time before its
\* expiry, to the subject u.username; and while u's row exists, the protected
\* route answers that unexpired token with 200 and a greeting that names
\* u.username.
C6_RoundTrip ==
    /\ (req.op \in {"user_login", "login_for_oauth_form"} /\ resp.status = 200)
       => \E u \in users :
            /\ u.email = req.email
            /\ resp.username = u.username
            /\ \A t \in now .. (now + ACCESS_TTL - 1) :
                 verify_access_token(resp.access_token, t)
                     = [ok |-> TRUE, sub |-> u.username]
            /\ held \in {Held(resp.access_token, "user", now),
                         Held(resp.refresh_token, "user", now)}
               => held.tok.sub = u.username
    /\ (held.origin = "user" /\ ~held.orphan)
       => \E u \in users : u.username = held.tok.sub
    /\ (/\ req.op = "protected_route"
        /\ req.hdr = Bearer(held.tok)
        /\ held.origin = "user" /\ ~held.orphan
        /\ held.tok.kind = "access" /\ now < held.tok.exp)
       => /\ Reached(resp)
          /\ resp.handler = "protected_route"
          /\ resp.username = held.tok.sub

\* The protected route greeted the live user of an unexpired access token.
C6_Witness ==
    /\ req.op = "protected_route"
    /\ req.hdr = Bearer(held.tok)
    /\ held.origin = "user" /\ ~held.orphan
    /\ held.tok.kind = "access" /\ now < held.tok.exp
    /\ resp.status = 200
    /\ resp.username = held.tok.sub
    /\ \E u \in users : u.username = resp.username

\* -------------------------------------------------------------------- C7
\* C7 as stated: once the User row a token was minted for has been deleted,
\* every later request that carries the token to a user-guarded route is
\* answered 401, whatever happened in between.
C7_DeletedPrincipalTokenUnusable ==
    [][(/\ Serves(UserGuarded)
        /\ held.origin = "user" /\ held.orphan
        /\ req'.hdr = Bearer(held.tok))
       => resp'.status = 401]_vars

\* -------------------------------------------------------------------- C8
\* C8: on the three login routes, the email and password either match a row
\* of the route's table (the password verifying against the row's stored
\* hash), and the response is 200 with an access token for that row's
\* username, or they do not, and the response is 400 "Invalid credentials"
\* without any token -- the same response for an unknown email and for a
\* wrong password.  No login changes a table.
C8_LoginFailuresAlike ==
    [][Serves(Logins) =>
        LET table == IF req'.op = "login" THEN admins ELSE users
            known == {r \in table : r.email = req'.email}
            matching == {r \in known :
                            verify_password(req'.password, r.hashed_password)}
        IN  /\ users' = users /\ admins' = admins
            /\ matching = {}
               => /\ resp' = HTTPException(400, "Invalid credentials", "")
                  /\ resp'.access_token = NoToken
                  /\ resp'.refresh_token = NoToken
                  /\ held' = held
            /\ matching # {}
               => \E r \in matching :
                    /\ resp'.status = 200
                    /\ resp'.username = r.username
                    /\ resp'.access_token
                         = Token(r.username, "access", now + ACCESS_TTL,
                                 JWT_SECRET_KEY)
                    /\ resp'.refresh_token
                         = IF req'.op = "user_login"
                           THEN Token(r.username, "refresh", now + REFRESH_TTL,
                                      JWT_SECRET_KEY)
                           ELSE NoToken]_vars

\* A login with a known email and a wrong password was refused.
C8_Witness ==
    /\ req.op \in Logins
    /\ \E r \in (IF req.op = "login" THEN admins ELSE users) :
         /\ r.email = req.email
         /\ ~verify_password(req.password, r.hashed_password)
    /\ resp = HTTPException(400, "Invalid credentials", "")

\* A login with an email no row has was refused, while other rows exist.
C8_WitnessUnknownEmail ==
    /\ req.op \in Logins
    /\ users # {} /\ admins # {}
    /\ \A r \in users \cup admins : r.email # req.email
    /\ resp = HTTPException(400, "Invalid credentials", "")

\* -------------------------------------------------------------------- C9
\* C9: the refresh route answers 200 with a new access token exactly when
\* the submitted token is well formed, signed by the server, unexpired, of
\* kind refresh, names a subject and that subject has a User row; the new
\* token is an access token for that same subject.  Otherwise the answer is
\* 401 and carries no token.  The tables are never changed.
C9_RefreshMintsIff ==
    [][Serves({"get_refresh_token"}) =>
        LET k == req'.body_token
            good == /\ ~Malformed(k) /\ ~BadSignature(k) /\ ~Expired(k, now)
                    /\ k.kind = "refresh" /\ k.sub # NoSub
                    /\ ~Unresolved(k, users)
        IN  /\ users' = users /\ admins' = admins
            /\ resp'.refresh_token = NoToken
            /\ good
               => /\ resp'.status = 200
                  /\ resp'.access_token
                       = Token(k.sub, "access", now + ACCESS_TTL, JWT_SECRET_KEY)
                  /\ verify_access_token(resp'.access_token, now).sub = k.sub
            /\ ~good
               => /\ resp'.status = 401
                  /\ resp'.access_token = NoToken
                  /\ held' = held]_vars

\* A refresh token minted earlier bought a new access token for its subject
\* after the first access token had expired.
C9_Witness ==
    /\ req.op = "get_refresh_token"
    /\ req.body_token.kind = "refresh"
    /\ now >= req.body_token.exp - REFRESH_TTL + ACCESS_TTL
    /\ resp.status = 200
    /\ resp.access_token.sub = req.body_token.sub
    /\ held.tok = resp.access_token

\* The unexpired refresh token of a deleted user bought nothing.
C9_WitnessDeleted ==
    /\ req.op = "get_refresh_token"
    /\ req.body_token = held.tok
    /\ held.tok.kind = "refresh" /\ held.orphan /\ now < held.tok.exp
    /\ resp.status = 401

\* ------------------------------------------------------------------- C10
UniqueRows(table) ==
    \A r, q \in table :
        (r.username = q.username \/ r.email = q.email \/ r.id = q.id) => r = q

\* What a registration for (username, email) must do to `table`.
Registers(table, table2, r) ==
    LET nameTaken == \E q \in table : q.username = req'.username
        emailTaken == \E q \in table : q.email = req'.email
    IN  /\ nameTaken
           => r = HTTPException(400, "Username already registered", "")
        /\ ~nameTaken /\ emailTaken
           => r = HTTPException(400, "Email already registered", "")
        /\ ~nameTaken /\ ~emailTaken
           => /\ r.status = 200
              /\ \E row \in table2 \ table :
                   /\ table2 = table \cup {row}
                   /\ row.username = req'.username
                   /\ row.email = req'.email
        /\ r.status # 200 => table2 = table

GuardMoves ==
    {<<"Unauthenticated", "TokenChecked">>,
     <<"TokenChecked", "PrincipalChecked">>,
     <<"PrincipalChecked", "Authorized">>,
     <<"Unauthenticated", "Rejected">>,
     <<"TokenChecked", "Rejected">>,
     <<"PrincipalChecked", "Rejected">>}

\* The guard as one call, for the route of a request in flight.
GuardOf(task, U, A, t) ==
    IF task.op \in UserGuarded THEN get_current_user(task.hdr, U, t)
    ELSE get_admin_user(task.hdr, A, t)

\* What one step may do to the request in flight t (t2 after the step).
GuardedStep(t, t2) ==
    LET guarded == t.op \in UserGuarded \cup AdminGuarded
    IN  \* a request starts Unauthenticated, and only a new request does
        /\ (t2.guard = "Unauthenticated" /\ t.guard # "Unauthenticated")
           => t = Idle /\ t2.op \in UserGuarded \cup AdminGuarded
                       /\ t2.pc = "guard" /\ t2.resp = NoResp
        /\ (t = Idle /\ t2.op \in UserGuarded \cup AdminGuarded)
           => t2.guard = "Unauthenticated"
        \* the guard moves one check forward, or to Rejected
        /\ (guarded /\ t2 # Idle /\ t2.guard # t.guard)
           => <<t.guard, t2.guard>> \in GuardMoves
        \* no check touches the store, and none runs any of the handler
        /\ (guarded /\ t.guard \notin {"Authorized", "Rejected"} /\ t2 # t)
           => /\ users' = users /\ admins' = admins
              /\ t2.pc = "guard" <=> t2.guard \notin {"Authorized", "Rejected"}
              /\ t2.resp.handler = "none"
        \* Authorized: the principal is the row the guard as one call gives
        /\ (guarded /\ t.guard # "Authorized" /\ t2.guard = "Authorized")
           => /\ GuardOf(t, users, admins, now) = Authorized(t2.principal)
              /\ t2.pc = "body" /\ t2.resp = NoResp
        \* Rejected: answered at once with the error the guard gives
        /\ (guarded /\ t.guard # "Rejected" /\ t2.guard = "Rejected")
           => /\ GuardOf(t, users, admins, now) = Rejected(t2.resp)
              /\ t2.pc = "done"
              /\ t2.resp.status \in {401, 403}
        \* Rejected is terminal: the request only leaves
        /\ t.guard = "Rejected"
           => /\ t2 \in {t, Idle}
              /\ t2 = Idle => users' = users /\ admins' = admins
        \* Authorized is kept until the response has gone out
        /\ (t.guard = "Authorized" /\ t2 # Idle)
           => t2.guard = "Authorized" /\ t2.principal = t.principal

\* C11: the guard of every guarded request goes Unauthenticated ->
\* TokenChecked -> PrincipalChecked -> Authorized in that order, a failed
\* check takes it straight to Rejected, which it never leaves; the handler
\* body runs (and the store is written, and a handler's response is made)
\* only for a request that is Authorized; and every request that has arrived
\* reaches Authorized or Rejected, never both.
C11_GuardStateMachine ==
    /\ [][\A i \in TaskIds : GuardedStep(tasks[i], tasks'[i])]_vars
    /\ [](\A i \in TaskIds :
            (tasks[i].op \in UserGuarded \cup AdminGuarded)
            => /\ tasks[i].pc \notin {"idle", "guard", "done"}
                  => tasks[i].guard = "Authorized"
               /\ tasks[i].resp.handler # "none"
                  => tasks[i].guard = "Authorized"
               /\ tasks[i].pc = "done"
                  => tasks[i].guard \in {"Authorized", "Rejected"})
    /\ \A i \in TaskIds :
         (tasks[i].guard = "Unauthenticated")
             ~> (tasks[i].guard \in {"Authorized", "Rejected"})

\* A request with the verified token of a live user was Rejected at the
\* lookup, the row having been deleted by another request after the token
\* was checked.
C11_Witness ==
    \E i \in TaskIds :
        /\ tasks[i].op \in UserGuarded
        /\ tasks[i].guard = "Rejected"
        /\ verify_access_token(tasks[i].hdr.token, now).ok
        /\ Unresolved(tasks[i].hdr.token, users)
        /\ tasks[i].resp = credentials_exception

\* An Authorized request ran its handler to the end while the guard of
\* another request was between two checks.
C11_WitnessAuthorized ==
    \E i, j \in TaskIds :
        /\ tasks[i].guard = "Authorized"
        /\ tasks[i].pc = "done"
        /\ Reached(tasks[i].resp)
        /\ tasks[j].guard \in {"TokenChecked", "PrincipalChecked"}

\* ------------------------------------------------------------------- C12
\* C12: the Admin table changes only by a POST /admin/register that carries
\* the configured MASTER_KEY, and then by exactly the one new row of the
\* request's username and email; a POST /admin/register with any other
\* master_key is answered 400 "Incorrect master key" and leaves both tables
\* as they were, whether or not its username or email is taken.
C12_MasterKeyRequired ==
    [][/\ admins' # admins
          => /\ Serves({"admin_register"})
             /\ req'.master_key = MASTER_KEY
             /\ resp'.status = 200
             /\ \E row \in admins' \ admins :
                  /\ admins' = admins \cup {row}
                  /\ row.username = req'.username
                  /\ row.email = req'.email
       /\ (Serves({"admin_register"}) /\ req'.master_key # MASTER_KEY)
          => /\ resp' = HTTPException(400, "Incorrect master key", "")
             /\ admins' = admins
             /\ users' = users]_vars

\* An admin registration with a wrong master key and the username and email
\* of an admin that exists was refused for the key.
C12_Witness ==
    /\ req.op = "admin_register"
    /\ req.master_key # MASTER_KEY
    /\ \E a \in admins : a.username = req.username /\ a.email = req.email
    /\ resp = HTTPException(400, "Incorrect master key", "")

\* ------------------------------------------------------------------- C13
\* C13 as stated: a DELETE /auth/account that has passed the user guard ends,
\* whatever the other requests in flight do, either with 200 and the removal
\* of exactly the caller's row, or with 404 "User not found" when that row
\* is not there any more; and none of its steps removes another row.
C13_DeleteAccountOutcome ==
    [][\A i \in TaskIds :
        LET t == tasks[i]
            t2 == tasks'[i]
        IN  (t.op = "delete_account" /\ t.guard = "Authorized" /\ t2 # t)
            => /\ users \ users' \subseteq {t.principal}
               /\ t2.pc = "done"
                  => \/ /\ t2.resp.status = 200
                        /\ t.principal \in users
                        /\ users' = users \ {t.principal}
                     \/ /\ t2.resp = HTTPException(404, "User not found", "")
                        /\ t.principal \notin users
                        /\ users' = users]_vars

\* ------------------------------------------------------------------- C14
\* C14 as stated: however two POST /auth/register interleave, no two User
\* rows share a username or an email, and every registration ends with the
\* success response or with 400 "Username already registered" or 400 "Email
\* already registered".
C14_ConcurrentRegistration ==
    /\ UniqueRows(users)
    /\ \A i \in TaskIds :
         (tasks[i].op = "register" /\ tasks[i].pc = "done")
         => \/ /\ tasks[i].resp.status = 200
               /\ tasks[i].resp.handler = "register"
            \/ tasks[i].resp
                 \in {HTTPException(400, "Username already registered", ""),
                      HTTPException(400, "Email already registered", "")}

\* ------------------------------------------------------------------- C15
\* C15: DELETE /admin/users/{user_id} that has passed the admin guard: when
\* no User row has that id, the answer is 404 "User not found" and both
\* tables stay as they were; otherwise the answer is 200 for the row of that
\* id, exactly that row is gone from the User table, and the Admin table
\* stays as it was.  A request the guard refuses changes nothing.
C15_DeleteUserFrame ==
    [][Serves({"delete_user"}) =>
        LET target == {u \in users : u.id = req'.user_id}
        IN  /\ admins' = admins
            /\ ~Accepted(resp') => users' = users
            /\ (Accepted(resp') /\ target = {})
               => /\ resp' = HTTPException(404, "User not found", "")
                  /\ users' = users
            /\ (Accepted(resp') /\ target # {})
               => /\ resp'.status = 200
                  /\ resp'.handler = "delete_user"
                  /\ resp'.user_id = req'.user_id
                  /\ Cardinality(target) = 1
                  /\ users' = users \ target
                  /\ \A u \in users : u.id # req'.user_id => u \in users']_vars

\* An admin deleted one of two users: the other row is still there, and so
\* is an admin of the deleted user's name.
C15_Witness ==
    /\ req.op = "delete_user"
    /\ resp.status = 200
    /\ \A u \in users : u.id # req.user_id /\ u.username # resp.username
    /\ users # {}
    /\ \E a \in admins : a.username = resp.username

\* An admin asked for the deletion of an id no row has, while rows exist.
C15_WitnessMissing ==
    /\ req.op = "delete_user"
    /\ users # {}
    /\ \A u \in users : u.id # req.user_id
    /\ resp = HTTPException(404, "User not found", "")

====
